---- MODULE Spec2Model ----
(***************************************************************************)
(* MiniPaint (src/mini_paint.py): the canvas, its preview overlay, the     *)
(* bounded undo/redo history and the pointer-driven gesture handler.       *)
(*                                                                         *)
(* A surface is modelled by what the program does to it: the sequence of   *)
(* drawing operations applied since its last fill.  Every element is the   *)
(* sequence of pygame.draw calls one drawing operation of the source made  *)
(* (a dab, one draw_line_smooth, one shape).  Two surfaces with the same   *)
(* sequence hold the same pixels.  Surface.copy() is the value itself.     *)
(* Python's None is the empty tuple; indexes are 0-based as in the source. *)
(***************************************************************************)
EXTENDS Integers, Sequences, FiniteSets, TLC

\* ---------------------------------------------------------------- bounds
\* capacity of the history used by the model; the program sets 50 (line 79)
MaxHistory == 3
\* most operations (pointer samples and commands) followed in a behaviour
MaxOps == 7
\* most pointer samples followed in a behaviour that starts right before a
\* gesture
MaxSamples == 3

\* ------------------------------------------------------------- constants
CANVAS_WIDTH == 800
CANVAS_HEIGHT == 600
TOOLBAR_WIDTH == 350
HEADER_HEIGHT == 80

WHITE == <<255, 255, 255>>
BLUE == <<37, 99, 235>>

None == <<>>

\* the freehand list of lines 253 and 269 with the line tool in it
FreehandToolsAndLine == {"brush", "pen", "marker", "eraser", "line"}
FreehandTools == {"brush", "pen", "marker", "eraser"}
ShapeTools == {"line", "rectangle", "circle", "triangle", "star", "heart"}
Tool == FreehandTools \cup ShapeTools

\* pointer positions in window coordinates fed to the handler: two points
\* inside the canvas, canvas (10,10) and (13,14), and two just outside it,
\* canvas (800,10) and canvas (10,-1)
PosA == <<380, 110>>
PosB == <<383, 114>>
PosRight == <<1170, 110>>
PosAbove == <<380, 99>>
ScreenPositions == {PosA, PosB, PosRight, PosAbove}
\* widths the size slider is set to
BrushSizes == {1, 5}
\* window positions of the canvas points (x, y), x in 10..12 and y in {10, 12}:
\* every horizontal displacement from -2 to 2 and the diagonal (2, 2)
ShapePositions == {<<370 + x, 100 + y>> : x \in 10..12, y \in {10, 12}}
\* window positions of the canvas points (0,0), (0,22) and (2,2)
StrokePositions == {<<370, 100>>, <<370, 122>>, <<372, 102>>}

\* ------------------------------------------------------- integer helpers
Max(a, b) == IF a >= b THEN a ELSE b
Min(a, b) == IF a <= b THEN a ELSE b
Abs(a) == IF a >= 0 THEN a ELSE -a
\* int(x) of a quotient: truncation toward zero
TruncDiv(a, b) == IF a >= 0 THEN a \div b ELSE -((-a) \div b)
\* the square root rounded to the nearest integer
ISqrtNearest(n) == CHOOSE k \in 0..n : /\ k = 0 \/ (2 * k - 1) * (2 * k - 1) <= 4 * n
                                       /\ 4 * n < (2 * k + 1) * (2 * k + 1)
\* the square root rounded up
ISqrtCeil(n) == CHOOSE k \in 0..n : k * k >= n /\ (k = 0 \/ (k - 1) * (k - 1) < n)
\* int(math.sqrt(n)) for n >= 0
ISqrt(n) == CHOOSE k \in 0..n : k * k <= n /\ (k + 1) * (k + 1) > n

\* a // b with the quotient cut toward zero
FloorDivTowardZero(a, b) == IF a >= 0 THEN a \div b ELSE -((-a) \div b)
\* Python's a // b for b > 0: the quotient rounded down
FloorDiv(a, b) == a \div b

\* the width the size slider sets for the pointer at window x (line 443)
slider_size(mouse_x) ==
    LET relative_x == mouse_x - 20
    IN  Max(1, Min(100, TruncDiv(relative_x * 99, 250) + 1))
\* every width the slider can set: its rectangle spans x in [20, 270)
\* (lines 430, 441)
SliderSizes == {slider_size(mouse_x) : mouse_x \in 20..269}

VARIABLES canvas, preview_surface, current_tool, current_color, brush_size,
          is_drawing, last_pos, start_pos, history, history_index,
          show_landing, ev, taken, nops, objs

\* program state
pvars == <<canvas, preview_surface, current_tool, current_color, brush_size,
           is_drawing, last_pos, start_pos, history, history_index,
           show_landing>>
vars == <<canvas, preview_surface, current_tool, current_color, brush_size,
          is_drawing, last_pos, start_pos, history, history_index,
          show_landing, ev, taken, nops, objs>>

max_history == MaxHistory

\* ------------------------------------------------------------- history
\* save_state with the oldest snapshot never evicted
save_state_no_evict(h, i, c) ==
    LET h1 == IF i < Len(h) - 1 THEN SubSeq(h, 1, i + 1) ELSE h
    IN  [history |-> Append(h1, c), history_index |-> i + 1]

\* save_state with the cursor advanced on eviction too
save_state_always_advance(h, i, c) ==
    LET h1 == IF i < Len(h) - 1 THEN SubSeq(h, 1, i + 1) ELSE h
        h2 == Append(h1, c)
    IN  IF Len(h2) > max_history
        THEN [history |-> Tail(h2), history_index |-> i + 1]
        ELSE [history |-> h2, history_index |-> i + 1]

\* save_state evicting the newest snapshot (pop() for pop(0))
save_state_pop_newest(h, i, c) ==
    LET h1 == IF i < Len(h) - 1 THEN SubSeq(h, 1, i + 1) ELSE h
        h2 == Append(h1, c)
    IN  IF Len(h2) > max_history
        THEN [history |-> SubSeq(h2, 1, Len(h2) - 1), history_index |-> i]
        ELSE [history |-> h2, history_index |-> i + 1]

\* save_state without the truncation of the redo future: the snapshot is
\* appended at the end and the cursor advanced by one
save_state_no_truncate(h, i, c) ==
    LET h2 == Append(h, c)
    IN  IF Len(h2) > max_history
        THEN [history |-> Tail(h2), history_index |-> i]
        ELSE [history |-> h2, history_index |-> i + 1]

\* save_state storing the snapshot at the cursor once more, not the canvas
save_state_stale(h, i, c) ==
    LET h1 == IF i < Len(h) - 1 THEN SubSeq(h, 1, i + 1) ELSE h
        h2 == Append(h1, h[i + 1])
    IN  IF Len(h2) > max_history
        THEN [history |-> Tail(h2), history_index |-> i]
        ELSE [history |-> h2, history_index |-> i + 1]

\* save_state: the history and cursor after committing canvas c
save_state(h, i, c) ==
    LET h1 == IF i < Len(h) - 1 THEN SubSeq(h, 1, i + 1) ELSE h
        h2 == Append(h1, c)
    IN  IF Len(h2) > max_history
        THEN [history |-> Tail(h2), history_index |-> i]
        ELSE [history |-> h2, history_index |-> i + 1]

\* undo without its guard; history[-1] is Python's last element
undo_unguarded(h, i, c) ==
    [history_index |-> i - 1, canvas |-> IF i > 0 THEN h[(i - 1) + 1] ELSE h[Len(h)]]

\* undo that moves the cursor and leaves the canvas as it is
undo_keeps_canvas(h, i, c) ==
    IF i > 0
    THEN [history_index |-> i - 1, canvas |-> c]
    ELSE [history_index |-> i, canvas |-> c]

\* undo: the cursor and canvas after undo
undo(h, i, c) ==
    IF i > 0
    THEN [history_index |-> i - 1, canvas |-> h[(i - 1) + 1]]
    ELSE [history_index |-> i, canvas |-> c]

\* redo that moves the cursor and leaves the canvas as it is
redo_keeps_canvas(h, i, c) ==
    IF i < Len(h) - 1
    THEN [history_index |-> i + 1, canvas |-> c]
    ELSE [history_index |-> i, canvas |-> c]

\* redo: the cursor and canvas after redo
redo(h, i, c) ==
    IF i < Len(h) - 1
    THEN [history_index |-> i + 1, canvas |-> h[(i + 1) + 1]]
    ELSE [history_index |-> i, canvas |-> c]

\* get_canvas_pos with the right and bottom edges included
get_canvas_pos_inclusive(screen_pos) ==
    LET canvas_rel_x == screen_pos[1] - (TOOLBAR_WIDTH + 20)
        canvas_rel_y == screen_pos[2] - (HEADER_HEIGHT + 20)
    IN  IF /\ 0 <= canvas_rel_x /\ canvas_rel_x <= CANVAS_WIDTH
           /\ 0 <= canvas_rel_y /\ canvas_rel_y <= CANVAS_HEIGHT
        THEN <<canvas_rel_x, canvas_rel_y>>
        ELSE None

\* get_canvas_pos: window position to canvas position, None outside
get_canvas_pos(screen_pos) ==
    LET canvas_x == TOOLBAR_WIDTH + 20
        canvas_y == HEADER_HEIGHT + 20
        canvas_rel_x == screen_pos[1] - canvas_x
        canvas_rel_y == screen_pos[2] - canvas_y
    IN  IF /\ 0 <= canvas_rel_x /\ canvas_rel_x < CANVAS_WIDTH
           /\ 0 <= canvas_rel_y /\ canvas_rel_y < CANVAS_HEIGHT
        THEN <<canvas_rel_x, canvas_rel_y>>
        ELSE None

\* --------------------------------------------------------------- drawing
\* pygame.draw calls, as the source passes their arguments
DrawCircle(color, center, radius, width) == <<"circle", color, center, radius, width>>
DrawLine(color, p, q, width) == <<"line", color, p, q, width>>
DrawRect(color, rect, width) == <<"rect", color, rect, width>>
DrawPolygon(color, points, width) == <<"polygon", color, points, width>>

\* the width of the dab taken to be brush_size for every tool
DabSizePlain(tool, size) == size
\* width of the dab a freehand tool draws at pointer-down (lines 254-265)
DabSize(tool, size) ==
    IF tool = "eraser" THEN size
    ELSE IF tool = "pen" THEN Max(1, size \div 2)
    ELSE IF tool = "marker" THEN TruncDiv(size * 3, 2)
    ELSE size

\* width a freehand tool draws its segments with on pointer-move
\* (lines 271-282); the eraser branch passes brush_size itself (line 272)
EffectiveSize(tool, size) ==
    IF tool = "pen" THEN Max(1, size \div 2)
    ELSE IF tool = "marker" THEN (size * 3) \div 2
    ELSE size

StrokeColor(tool, color) == IF tool = "eraser" THEN WHITE ELSE color

\* the exponent of n >= 1: 2^ILog2(n) <= n < 2^(ILog2(n) + 1)
RECURSIVE ILog2(_)
ILog2(n) == IF n < 2 THEN 0 ELSE 1 + ILog2(n \div 2)
IsPow2(n) == 2 ^ ILog2(n) = n
\* 2^e modulo m
RECURSIVE Pow2Mod(_, _)
Pow2Mod(e, m) == IF e = 0 THEN 1 % m ELSE (2 * Pow2Mod(e - 1, m)) % m

\* the exact quotient for the interpolated coordinate, rounded down
LerpExact(start, i, steps, d) == start + ((i * d) \div steps)

\* int(start + (i / steps) * d) of lines 150-152 as IEEE-754 binary64
\* computes it, for 0 <= i <= steps, 1 <= steps, |d| <= steps and a result on
\* the canvas.  t = i / steps, t * d and start + t * d are each rounded to
\* the nearest 53-bit value (ties to even) and int() drops the fraction.
\* Where the exact value start + i*d/steps is not an integer it is at least
\* 1/steps away from one, far more than the rounding errors, and int() gives
\* its floor.  Where it is an integer y, int() gives y or y - 1:
\*   z     t lies in [2^-z, 2^(1-z)), so t = M / 2^(z+52) with a 53-bit M
\*   r     the remainder of i * 2^(z+52) by steps; M is rounded up when
\*         2r > steps, and rho = M * steps - i * 2^(z+52) is the error of t
\*         in units of 2^-(z+52) / steps
\*   q     the exact product i*d/steps, of exponent eq; the exact t * d is
\*         q + d*rho / (steps * 2^(z+52)), A / D units of 2^(eq-52) from q
\*   mag   how far the rounded product is from q, in units of 2^(eq-53):
\*         0, 2 (one unit in the last place), or 1 (below a power of two,
\*         where the values are twice as dense)
\*   the sum start + product is below y when the product moved towards
\*   start, and stays below y after rounding when that distance is more than
\*   half the gap between y and the binary64 value just below it
Lerp(start, i, steps, d) ==
    LET q == (i * d) \div steps
        y == start + q
    IN  IF (i * d) % steps # 0 THEN LerpExact(start, i, steps, d)
        ELSE IF q = 0 \/ i = steps \/ y = 0 THEN y
        ELSE LET z == CHOOSE k \in 1..12 : i * 2 ^ k >= steps /\ i * 2 ^ (k - 1) < steps
                 r == (i * Pow2Mod(z + 52, steps)) % steps
                 rho == IF 2 * r > steps THEN steps - r ELSE -r
                 eq == ILog2(Abs(q))
                 D == steps * 2 ^ (z + eq)
                 A == Abs(d * rho)
                 mag == IF rho > 0 \/ ~IsPow2(Abs(q))
                        THEN (IF 2 * A > D THEN 2 ELSE 0)
                        ELSE IF 4 * A >= 3 * D THEN 2
                        ELSE IF 4 * A > D THEN 1
                        ELSE 0
                 below == (q > 0 /\ rho < 0) \/ (q < 0 /\ rho > 0)
                 ld == IF mag = 2 THEN eq - 52 ELSE eq - 53
                 hb == IF IsPow2(y) THEN ILog2(y) - 54 ELSE ILog2(y) - 53
             IN  IF r # 0 /\ mag # 0 /\ below /\ ld > hb THEN y - 1 ELSE y

\* draw_line_smooth: the circles it draws, in order
SmoothCircles(start, end, color, width) ==
    IF start = end THEN << DrawCircle(color, start, width \div 2, 0) >>
    ELSE LET dx == end[1] - start[1]
             dy == end[2] - start[2]
             steps == ISqrt(dx * dx + dy * dy)
         IN  [k \in 1..(steps + 1) |->
                DrawCircle(color,
                           << Lerp(start[1], k - 1, Max(steps, 1), dx),
                              Lerp(start[2], k - 1, Max(steps, 1), dy) >>,
                           width \div 2, 0)]

draw_line_smooth(surface, start, end, color, width) ==
    Append(surface, SmoothCircles(start, end, color, width))

\* cos and sin of i * pi / 5 - pi / 2, times 10^6
StarCos == << 0, 587785, 951057, 951057, 587785, 0, -587785, -951057, -951057, -587785 >>
StarSin == << -1000000, -809017, -309017, 309017, 809017, 1000000, 809017, 309017, -309017, -809017 >>

\* draw_star: the polygon it draws
draw_star(center, radius, color, width) ==
    LET r(i) == IF i % 2 = 0 THEN radius ELSE radius \div 2
        points == [k \in 1..10 |->
                    << center[1] + TruncDiv(r(k - 1) * StarCos[k], 1000000),
                       center[2] + TruncDiv(r(k - 1) * StarSin[k], 1000000) >>]
    IN  << DrawPolygon(color, points, width) >>

\* draw_heart: the two circles and the polygon it draws
draw_heart(center, size, color, width) ==
    LET x == center[1]
        y == center[2]
        heart_size == size \div 2
    IN  << DrawCircle(color, <<x - heart_size \div 2, y - heart_size \div 3>>,
                      heart_size \div 2, width),
           DrawCircle(color, <<x + heart_size \div 2, y - heart_size \div 3>>,
                      heart_size \div 2, width),
           DrawPolygon(color, << <<x - heart_size, y>>, <<x + heart_size, y>>,
                                 <<x, y + heart_size>> >>, width) >>

\* the draw calls of draw_preview for a shape from start to end_pos
\* (lines 201-241); the empty sequence when the branch draws nothing
PreviewShape(tool, start, end_pos, color, size) ==
    IF tool = "line" THEN << DrawLine(color, start, end_pos, size) >>
    ELSE IF tool = "rectangle"
    THEN << DrawRect(color, << Min(start[1], end_pos[1]), Min(start[2], end_pos[2]),
                               Abs(end_pos[1] - start[1]), Abs(end_pos[2] - start[2]) >>,
                     size) >>
    ELSE IF tool = "circle"
    THEN LET radius == ISqrt((end_pos[1] - start[1]) * (end_pos[1] - start[1])
                             + (end_pos[2] - start[2]) * (end_pos[2] - start[2]))
         IN  IF radius > 0 THEN << DrawCircle(color, start, radius, size) >> ELSE << >>
    ELSE IF tool = "triangle"
    THEN LET width == end_pos[1] - start[1]
             height == end_pos[2] - start[2]
         IN  << DrawPolygon(color, << <<start[1] + FloorDiv(width, 2), start[2]>>,
                                      <<start[1], start[2] + height>>,
                                      <<start[1] + width, start[2] + height>> >>, size) >>
    ELSE IF tool = "star"
    THEN LET radius == Abs(end_pos[1] - start[1]) \div 2
         IN  IF radius > 0 THEN draw_star(start, radius, color, size) ELSE << >>
    ELSE IF tool = "heart"
    THEN LET size_ == Abs(end_pos[1] - start[1])
         IN  IF size_ > 0 THEN draw_heart(start, size_, color, size) ELSE << >>
    ELSE << >>

\* a surface after one drawing operation made the given calls (none: unchanged)
Drawn(surface, calls) == IF calls = << >> THEN surface ELSE Append(surface, calls)

\* a fill that leaves the surface as it is
FillKeeps(surface) == surface
\* Surface.fill over the whole surface (lines 62, 118, 199, 330): nothing
\* drawn before it is left
Fill(surface) == << >>

\* draw_preview: the preview surface after draw_preview(end_pos)
draw_preview(preview, tool, start, end_pos, color, size) ==
    IF start = None THEN preview
    ELSE Drawn(Fill(preview), PreviewShape(tool, start, end_pos, color, size))

\* the committed shape drawn with outline width 1 whatever the brush size
CommitShapeThin(tool, start, canvas_pos, color, size) ==
    PreviewShape(tool, start, canvas_pos, color, 1)

\* the draw calls of the finishing branch of handle_drawing for a shape from
\* start to canvas_pos (lines 291-327)
CommitShape(tool, start, canvas_pos, color, size) ==
    IF start = None THEN << >>
    ELSE IF tool = "line" THEN << DrawLine(color, start, canvas_pos, size) >>
    ELSE IF tool = "rectangle"
    THEN << DrawRect(color, << Min(start[1], canvas_pos[1]), Min(start[2], canvas_pos[2]),
                               Abs(canvas_pos[1] - start[1]), Abs(canvas_pos[2] - start[2]) >>,
                     size) >>
    ELSE IF tool = "circle"
    THEN LET radius == ISqrt((canvas_pos[1] - start[1]) * (canvas_pos[1] - start[1])
                             + (canvas_pos[2] - start[2]) * (canvas_pos[2] - start[2]))
         IN  IF radius > 0 THEN << DrawCircle(color, start, radius, size) >> ELSE << >>
    ELSE IF tool = "triangle"
    THEN LET width == canvas_pos[1] - start[1]
             height == canvas_pos[2] - start[2]
         IN  << DrawPolygon(color, << <<start[1] + FloorDiv(width, 2), start[2]>>,
                                      <<start[1], start[2] + height>>,
                                      <<start[1] + width, start[2] + height>> >>, size) >>
    ELSE IF tool = "star"
    THEN LET radius == Abs(canvas_pos[1] - start[1]) \div 2
         IN  IF radius > 0 THEN draw_star(start, radius, color, size) ELSE << >>
    ELSE IF tool = "heart"
    THEN LET size_ == Abs(canvas_pos[1] - start[1])
         IN  IF size_ > 0 THEN draw_heart(start, size_, color, size) ELSE << >>
    ELSE << >>

\* ------------------------------------------------------------- objects
\* The surfaces as Python objects.  objs, when tracked (objs.on), tells which
\* object self.canvas is bound to (canvas), which objects self.history holds
\* (history, oldest first) and what every object holds (heap, by object
\* identity).  A pygame.draw call or a fill changes the object it is given,
\* and with it whatever is bound to that object; an assignment rebinds.
Ids == 1..(max_history + 2)
Untracked == [on |-> FALSE, heap |-> << >>, canvas |-> 0, history |-> << >>]
Live(o) == {o.canvas} \cup {o.history[k] : k \in 1..Len(o.history)}
\* the objects no longer bound to anything are gone
Collect(o) ==
    [o EXCEPT !.heap = [n \in Ids |-> IF n \in Live(o) THEN o.heap[n] ELSE None]]

\* a copy that is the object itself
copy_shares(o, src) == [id |-> src, heap |-> o.heap]
\* Surface.copy() (lines 77, 98, 108, 114): a new object, not bound to
\* anything yet, holding what object src holds
copy(o, src) ==
    LET id == CHOOSE n \in Ids \ Live(o) : \A m \in Ids \ Live(o) : n <= m
    IN  [id |-> id, heap |-> [o.heap EXCEPT ![id] = o.heap[src]]]

\* save_state on the objects: a copy of the canvas object is appended
save_state_objs(o, i) ==
    LET h1 == IF i < Len(o.history) - 1 THEN SubSeq(o.history, 1, i + 1) ELSE o.history
        c == copy(o, o.canvas)
        h2 == Append(h1, c.id)
    IN  [o EXCEPT !.heap = c.heap,
                  !.history = IF Len(h2) > max_history THEN Tail(h2) ELSE h2]

\* undo on the objects: self.canvas is bound to a copy of the snapshot
undo_objs(o, i) ==
    IF i > 0
    THEN LET c == copy(o, o.history[(i - 1) + 1])
         IN  [o EXCEPT !.heap = c.heap, !.canvas = c.id]
    ELSE o

\* redo on the objects: self.canvas is bound to a copy of the snapshot
redo_objs(o, i) ==
    IF i < Len(o.history) - 1
    THEN LET c == copy(o, o.history[(i + 1) + 1])
         IN  [o EXCEPT !.heap = c.heap, !.canvas = c.id]
    ELSE o

\* what the operation op does to the objects: a pointer sample draws the
\* strokes the step added on the object self.canvas is bound to, clear fills
\* that object, undo and redo rebind self.canvas, and a commit runs save_state
TrackObjects(op, committed) ==
    LET strokes == SubSeq(canvas', Len(canvas) + 1, Len(canvas'))
        acted == IF op = "sample"
                 THEN [objs EXCEPT !.heap[objs.canvas] = @ \o strokes]
                 ELSE IF op = "clear"
                 THEN [objs EXCEPT !.heap[objs.canvas] = Fill(@)]
                 ELSE IF op = "undo" THEN undo_objs(objs, history_index)
                 ELSE IF op = "redo" THEN redo_objs(objs, history_index)
                 ELSE objs
        saved == IF committed THEN save_state_objs(acted, history_index) ELSE acted
    IN  objs' = IF objs.on THEN Collect(saved) ELSE objs

\* ------------------------------------------------------ what a step did
\* Three variables observe the program and are never read by it.
\*   ev     the operation the last step ran: its name, the pointer sample it
\*          was given, the number of save_state calls it made (commits),
\*          whether that commit dropped a redo future (branched) or evicted
\*          the oldest snapshot (evicted), whether it is a redo right after a
\*          branching commit (after_branch), how far the sequence commit,
\*          undo, redo has got (chain 1, 2, 3), and the canvas, cursor and
\*          history right after that commit (mark), whether the step wiped a
\*          preview that held a shape (cleared), and whether it is a clear
\*          right after a clear (again), and whether an undo or a redo was
\*          issued during the gesture that is active or has just ended (mid)
\*   taken  when tracked (non-empty), every snapshot committed, oldest first
\*   nops   the number of operations processed
\* Observe also moves the objects along (TrackObjects).
Observe(op, pos, pressed, committed) ==
    LET branched == committed /\ history_index < Len(history) - 1
        chain == IF committed THEN 1
                 ELSE IF op = "undo" /\ ev.chain = 1 THEN 2
                 ELSE IF op = "redo" /\ ev.chain = 2 THEN 3
                 ELSE 0
    IN  /\ ev' = [op |-> op, pos |-> pos, pressed |-> pressed,
                  commits |-> IF committed THEN 1 ELSE 0,
                  branched |-> branched,
                  evicted |-> committed /\ ~branched /\ Len(history') = Len(history),
                  after_branch |-> op = "redo" /\ ev.commits = 1 /\ ev.branched,
                  chain |-> chain,
                  mark |-> IF committed THEN <<canvas', history_index', history'>>
                           ELSE IF chain \in {2, 3} THEN ev.mark
                           ELSE None,
                  cleared |-> preview_surface # << >> /\ preview_surface' = << >>,
                  again |-> op = "clear" /\ ev.op = "clear",
                  mid |-> is_drawing /\ (op \in {"undo", "redo"} \/ ev.mid)]
        /\ taken' = IF taken # << >> /\ committed THEN Append(taken, canvas') ELSE taken
        /\ nops' = nops + 1
        /\ TrackObjects(op, committed)

\* ----------------------------------------------------------------- steps
\* the three branches of handle_drawing (lines 249, 267, 287)
Starts(mouse_pressed, drawing) == mouse_pressed /\ ~drawing
Continues(mouse_pressed, drawing) == mouse_pressed /\ drawing
\* the finishing branch taken on every released sample
FinishesIdleToo(mouse_pressed, drawing) == ~mouse_pressed
Finishes(mouse_pressed, drawing) == ~mouse_pressed /\ drawing

\* the end of a gesture with last_pos left as it was
GestureEndKeepsLast == [is_drawing |-> FALSE, start_pos |-> None, last_pos |-> last_pos]
\* the gesture state the finishing branch leaves (lines 289, 332, 333)
GestureEnd == [is_drawing |-> FALSE, start_pos |-> None, last_pos |-> None]

\* run(), lines 587-590: one pointer sample handed to handle_drawing
HandleDrawing(pos, mouse_pressed) ==
    /\ nops < MaxOps
    /\ ~show_landing
    /\ LET canvas_pos == get_canvas_pos(pos)
       IN  IF canvas_pos = None
           THEN /\ UNCHANGED pvars
                /\ Observe("sample", pos, mouse_pressed, FALSE)
           ELSE IF Starts(mouse_pressed, is_drawing)
           THEN /\ is_drawing' = TRUE
                /\ start_pos' = canvas_pos
                /\ last_pos' = canvas_pos
                /\ canvas' =
                     IF current_tool \in FreehandTools
                     THEN Append(canvas,
                            << DrawCircle(StrokeColor(current_tool, current_color),
                                          canvas_pos,
                                          DabSize(current_tool, brush_size) \div 2,
                                          0) >>)
                     ELSE canvas
                /\ UNCHANGED <<preview_surface, current_tool, current_color,
                               brush_size, history, history_index, show_landing>>
                /\ Observe("sample", pos, mouse_pressed, FALSE)
           ELSE IF Continues(mouse_pressed, is_drawing)
           THEN /\ IF current_tool \in FreehandTools
                   THEN /\ canvas' =
                             IF last_pos # None
                             THEN draw_line_smooth(canvas, last_pos, canvas_pos,
                                      StrokeColor(current_tool, current_color),
                                      EffectiveSize(current_tool, brush_size))
                             ELSE canvas
                        /\ last_pos' = canvas_pos
                        /\ UNCHANGED preview_surface
                   ELSE /\ preview_surface' =
                             draw_preview(preview_surface, current_tool, start_pos,
                                          canvas_pos, current_color, brush_size)
                        /\ UNCHANGED <<canvas, last_pos>>
                /\ UNCHANGED <<current_tool, current_color, brush_size, is_drawing,
                               start_pos, history, history_index, show_landing>>
                /\ Observe("sample", pos, mouse_pressed, FALSE)
           ELSE IF Finishes(mouse_pressed, is_drawing)
           THEN /\ is_drawing' = GestureEnd.is_drawing
                /\ canvas' = Drawn(canvas, CommitShape(current_tool, start_pos, canvas_pos,
                                                       current_color, brush_size))
                /\ preview_surface' = Fill(preview_surface)
                /\ LET s == save_state(history, history_index, canvas')
                   IN  /\ history' = s.history
                       /\ history_index' = s.history_index
                /\ start_pos' = GestureEnd.start_pos
                /\ last_pos' = GestureEnd.last_pos
                /\ UNCHANGED <<current_tool, current_color, brush_size, show_landing>>
                /\ Observe("sample", pos, mouse_pressed, TRUE)
           ELSE /\ UNCHANGED pvars
                /\ Observe("sample", pos, mouse_pressed, FALSE)

Sample == \E pos \in ScreenPositions, mouse_pressed \in BOOLEAN :
             HandleDrawing(pos, mouse_pressed)

\* Ctrl+Z (line 569) and the Undo button (lines 483-485)
Undo ==
    /\ nops < MaxOps
    /\ LET u == undo(history, history_index, canvas)
       IN  /\ history_index' = u.history_index
           /\ canvas' = u.canvas
    /\ UNCHANGED <<preview_surface, current_tool, current_color, brush_size,
                   is_drawing, last_pos, start_pos, history, show_landing>>
    /\ Observe("undo", None, FALSE, FALSE)

\* Ctrl+Y (line 571) and the Redo button (lines 489-491)
Redo ==
    /\ nops < MaxOps
    /\ LET r == redo(history, history_index, canvas)
       IN  /\ history_index' = r.history_index
           /\ canvas' = r.canvas
    /\ UNCHANGED <<preview_surface, current_tool, current_color, brush_size,
                   is_drawing, last_pos, start_pos, history, show_landing>>
    /\ Observe("redo", None, FALSE, FALSE)

\* clear_canvas committing the canvas as it is, without the fill
ClearCanvasNoFill ==
    /\ nops < MaxOps
    /\ ~show_landing
    /\ canvas' = canvas
    /\ LET s == save_state(history, history_index, canvas')
       IN  /\ history' = s.history
           /\ history_index' = s.history_index
    /\ UNCHANGED <<preview_surface, current_tool, current_color, brush_size,
                   is_drawing, last_pos, start_pos, show_landing>>
    /\ Observe("clear", None, FALSE, TRUE)

\* the Clear button (lines 497-498): clear_canvas
ClearCanvas ==
    /\ nops < MaxOps
    /\ ~show_landing
    /\ canvas' = Fill(canvas)
    /\ LET s == save_state(history, history_index, canvas')
       IN  /\ history' = s.history
           /\ history_index' = s.history_index
    /\ UNCHANGED <<preview_surface, current_tool, current_color, brush_size,
                   is_drawing, last_pos, start_pos, show_landing>>
    /\ Observe("clear", None, FALSE, TRUE)

\* a tool button (lines 419-420)
SelectTool ==
    /\ nops < MaxOps
    /\ ~show_landing
    /\ \E tool \in Tool : current_tool' = tool
    /\ UNCHANGED <<canvas, preview_surface, current_color, brush_size, is_drawing,
                   last_pos, start_pos, history, history_index, show_landing>>
    /\ Observe("tool", None, FALSE, FALSE)

\* the size slider (lines 441-443)
SelectSize ==
    /\ nops < MaxOps
    /\ ~show_landing
    /\ \E size \in BrushSizes : brush_size' = size
    /\ UNCHANGED <<canvas, preview_surface, current_tool, current_color, is_drawing,
                   last_pos, start_pos, history, history_index, show_landing>>
    /\ Observe("size", None, FALSE, FALSE)

\* the Start Creating button of the landing page (lines 382-383)
StartCreating ==
    /\ nops < MaxOps
    /\ show_landing
    /\ show_landing' = FALSE
    /\ UNCHANGED <<canvas, preview_surface, current_tool, current_color, brush_size,
                   is_drawing, last_pos, start_pos, history, history_index>>
    /\ Observe("start", None, FALSE, FALSE)

\* Escape (line 575) and the Back button (lines 509-510)
BackToHome ==
    /\ nops < MaxOps
    /\ show_landing' = TRUE
    /\ UNCHANGED <<canvas, preview_surface, current_tool, current_color, brush_size,
                   is_drawing, last_pos, start_pos, history, history_index>>
    /\ Observe("back", None, FALSE, FALSE)

\* __init__ (lines 61-79)
InitProgram ==
    /\ canvas = Fill(<< >>)
    /\ preview_surface = << >>
    /\ current_tool = "brush"
    /\ current_color = BLUE
    /\ brush_size = 5
    /\ is_drawing = FALSE
    /\ last_pos = None
    /\ start_pos = None
    /\ history = << canvas >>
    /\ history_index = 0
    /\ show_landing = TRUE
    /\ ev = [op |-> "init", pos |-> None, pressed |-> FALSE, commits |-> 0,
             branched |-> FALSE, evicted |-> FALSE, after_branch |-> FALSE,
             chain |-> 0, mark |-> None, cleared |-> FALSE, again |-> FALSE,
             mid |-> FALSE]
    /\ nops = 0

Init == InitProgram /\ taken = << >> /\ objs = Untracked

Next ==
    \/ Sample
    \/ Undo
    \/ Redo
    \/ ClearCanvas
    \/ SelectTool
    \/ SelectSize
    \/ StartCreating
    \/ BackToHome

Spec == Init /\ [][Next]_vars

\* commits only: the program with no undo or redo issued, every committed
\* snapshot tracked in taken
InitCommits == InitProgram /\ taken = << canvas >> /\ objs = Untracked

NextCommits ==
    \/ Sample
    \/ ClearCanvas
    \/ SelectTool
    \/ SelectSize
    \/ StartCreating
    \/ BackToHome

SpecCommits == InitCommits /\ [][NextCommits]_vars

\* the program with its surfaces tracked as objects: after __init__ the
\* canvas is one object and the history holds a copy of it (lines 61, 77);
\* gestures with the brush, clear, undo and redo
InitObjects ==
    /\ InitProgram
    /\ taken = << >>
    /\ objs = Collect([on |-> TRUE, heap |-> [n \in Ids |-> None], canvas |-> 1,
                       history |-> << 2 >>])

SampleObjects == \E pos \in {PosA, PosB}, mouse_pressed \in BOOLEAN :
                    HandleDrawing(pos, mouse_pressed)

NextObjects ==
    \/ SampleObjects
    \/ Undo
    \/ Redo
    \/ ClearCanvas
    \/ StartCreating

SpecObjects == InitObjects /\ [][NextObjects]_vars

\* the session right before a gesture: the landing page left (lines 382-383),
\* a tool of tools and a width of sizes selected, nothing drawn yet, and
\* MaxSamples operations still to follow
InitGesture(tools, sizes) ==
    /\ canvas = Fill(<< >>)
    /\ preview_surface = << >>
    /\ current_tool \in tools
    /\ current_color = BLUE
    /\ brush_size \in sizes
    /\ is_drawing = FALSE
    /\ last_pos = None
    /\ start_pos = None
    /\ history = << canvas >>
    /\ history_index = 0
    /\ show_landing = FALSE
    /\ ev = [op |-> "init", pos |-> None, pressed |-> FALSE, commits |-> 0,
             branched |-> FALSE, evicted |-> FALSE, after_branch |-> FALSE,
             chain |-> 0, mark |-> None, cleared |-> FALSE, again |-> FALSE,
             mid |-> FALSE]
    /\ taken = << >>
    /\ nops = MaxOps - MaxSamples
    /\ objs = Untracked

\* freehand gestures with every width of the slider, between canvas (10,10)
\* and (13,14)
InitWidths == InitGesture(FreehandTools, SliderSizes)
SampleWidths == \E pos \in {PosA, PosB}, mouse_pressed \in BOOLEAN :
                   HandleDrawing(pos, mouse_pressed)
SpecWidths == InitWidths /\ [][SampleWidths]_vars

\* freehand gestures between points near and far from each other
InitStroke == InitGesture(FreehandTools, BrushSizes)
SampleStroke == \E pos \in StrokePositions, mouse_pressed \in BOOLEAN :
                   HandleDrawing(pos, mouse_pressed)
SpecStroke == InitStroke /\ [][SampleStroke]_vars

\* shape gestures over a grid of canvas points
InitShapes == InitGesture(ShapeTools, BrushSizes)
SampleShapes == \E pos \in ShapePositions, mouse_pressed \in BOOLEAN :
                   HandleDrawing(pos, mouse_pressed)
SpecShapes == InitShapes /\ [][SampleShapes]_vars

\* ------------------------------------------------------------ properties
\* the canvas position of a window position, whether or not it is on the canvas
CanvasCoord(pos) == << pos[1] - 370, pos[2] - 100 >>
InsideCanvas(pos) ==
    /\ CanvasCoord(pos)[1] \in 0..799
    /\ CanvasCoord(pos)[2] \in 0..599
Snapshot == history[history_index + 1]

\* C1: in every reachable state the history is well-formed: it holds at
\* least one and at most max_history snapshots, and the cursor is an index
\* into it.
HistoryWellFormed ==
    /\ 1 <= Len(history)
    /\ Len(history) <= max_history
    /\ 0 <= history_index
    /\ history_index < Len(history)

\* a commit has just evicted the oldest snapshot of a full history
FullHistoryEvicted ==
    /\ ev.evicted
    /\ Len(history) = max_history
    /\ history_index = max_history - 1

\* C2: right after every commit the cursor is the last index and the snapshot
\* there is the canvas just committed, whether or not the commit evicted the
\* oldest snapshot and whether or not it dropped a redo future.
CursorAtCommitted ==
    ev.commits = 1 =>
        /\ history_index = Len(history) - 1
        /\ history[Len(history)] = canvas
        /\ Snapshot = canvas

\* a commit that evicted, made of a gesture that drew on the canvas
EvictingCommitDone ==
    /\ ev.commits = 1
    /\ ev.evicted
    /\ ev.op = "sample"
    /\ canvas # << >>

\* a commit made after an undo, dropping the redo future
BranchingCommitDone ==
    /\ ev.commits = 1
    /\ ev.branched

\* C3: with no undo or redo, after N commits the history holds exactly the
\* min(N+1, max_history) most recently taken snapshots, in commit order.
HistoryIsRecentCommits ==
    LET n == Len(taken)
        k == Min(n, max_history)
    IN  /\ Len(history) = k
        /\ history = SubSeq(taken, n - k + 1, n)

\* more snapshots were taken than the history holds, the first two different
\* from each other, and the oldest one is gone
OldestEvicted ==
    /\ Len(taken) > max_history
    /\ taken[1] # taken[2]
    /\ history[1] = taken[Len(taken) - max_history + 1]
    /\ history[1] # taken[1]

\* C4: after a commit, undo followed at once by redo leaves the canvas, the
\* cursor and the history exactly as they were right after the commit.
UndoRedoRestores ==
    ev.chain = 3 => <<canvas, history_index, history>> = ev.mark

\* commit, undo, redo has run, and the undo had installed a different canvas
UndoRedoDone ==
    /\ ev.chain = 3
    /\ ev.op = "redo"
    /\ history_index >= 1
    /\ history[history_index] # canvas

\* C5: a commit made while snapshots lie after the cursor keeps the snapshots
\* up to the cursor, drops the rest and appends the canvas; a redo right
\* after it changes nothing; undo and redo never change the history and only
\* ever install a snapshot the history holds.
BranchTruncation ==
    [][ /\ (ev'.commits = 1 /\ history_index < Len(history) - 1) =>
              /\ history' = Append(SubSeq(history, 1, history_index + 1), canvas')
              /\ history_index' = Len(history') - 1
        /\ (ev.commits = 1 /\ ev.branched /\ ev'.op = "redo") =>
              UNCHANGED <<canvas, history_index, history>>
        /\ ev'.op \in {"undo", "redo"} =>
              /\ history' = history
              /\ \/ canvas' = canvas
                 \/ \E k \in 1..Len(history) : canvas' = history[k]
      ]_vars

\* a redo issued right after a commit that dropped a redo future
RedoAfterBranch ==
    /\ ev.op = "redo"
    /\ ev.after_branch

\* C6: undo with the cursor at 0 and redo with the cursor at the last index
\* change nothing of the program's state.
NoOpAtEnds ==
    [][ (\/ ev'.op = "undo" /\ history_index = 0
         \/ ev'.op = "redo" /\ history_index = Len(history) - 1)
        => UNCHANGED pvars ]_vars

\* an undo ran at cursor 0 in the middle of a freehand gesture: the canvas
\* still carries the dab, which snapshot 0 does not
UndoAtOldestDone ==
    /\ ev.op = "undo"
    /\ history_index = 0
    /\ is_drawing
    /\ canvas # history[1]

\* C7 as stated: in every reachable state the snapshot at the cursor equals
\* the canvas.
CanvasMatchesCursor == Snapshot = canvas

\* C7 as amended: in every reachable state with no gesture active the
\* snapshot at the cursor equals the canvas.
IdleCanvasMatchesCursor == ~is_drawing => Snapshot = canvas

\* a freehand gesture has been completed and its strokes committed
FreehandGestureCommitted ==
    /\ ~is_drawing
    /\ ev.op = "sample"
    /\ ev.commits = 1
    /\ current_tool \in FreehandTools
    /\ Len(canvas) >= 2

\* C8 as stated: a released sample during an active gesture, wherever the
\* pointer is, ends the gesture (idle, start and last unset) with one commit.
ReleaseEndsGesture ==
    [][ (is_drawing /\ ev'.op = "sample" /\ ~ev'.pressed) =>
            /\ ~is_drawing'
            /\ start_pos' = None
            /\ last_pos' = None
            /\ ev'.commits = 1
      ]_vars

\* C9: a pointer sample commits exactly once when it is a release inside the
\* canvas during an active gesture, and not at all otherwise (pointer-down,
\* pointer-move, a release with no gesture active).
OneCommitPerGesture ==
    [][ ev'.op = "sample" =>
          IF is_drawing /\ ~ev'.pressed /\ InsideCanvas(ev'.pos)
          THEN LET kept == SubSeq(history, 1, history_index + 1)
               IN  /\ ev'.commits = 1
                   /\ \/ history' = Append(kept, canvas')
                      \/ history' = Tail(Append(kept, canvas'))
          ELSE /\ ev'.commits = 0
               /\ UNCHANGED <<history, history_index>>
      ]_vars

\* a star gesture from canvas (10,10) to (13,14) has just been
\* committed by the pointer-up
StarGestureCommitted ==
    /\ ev.op = "sample"
    /\ ~ev.pressed
    /\ ev.commits = 1
    /\ canvas # << >>
    /\ canvas[Len(canvas)] = draw_star(<<10, 10>>, 1, BLUE, brush_size)
    /\ history[Len(history)] = canvas

\* C10: a pressed sample outside [0,800)x[0,600) changes neither is_drawing
\* nor start_pos nor last_pos nor the canvas, so it starts no gesture and
\* leaves an active one active; an idle session has both points unset.
OutsidePressIgnored ==
    [][ (ev'.op = "sample" /\ ev'.pressed /\ ~InsideCanvas(ev'.pos)) =>
            /\ UNCHANGED <<is_drawing, start_pos, last_pos, canvas>>
            /\ ~is_drawing' => (start_pos' = None /\ last_pos' = None)
      ]_vars

\* a pressed sample just right of the canvas arrived during a freehand
\* gesture that had already moved
OutsidePressDuringGesture ==
    /\ ev.op = "sample"
    /\ ev.pressed
    /\ ev.pos = PosRight
    /\ is_drawing
    /\ last_pos # start_pos

\* C11: in the initial state and after every processed pointer sample, a
\* gesture that is not active has its start point and its last point unset.
IdleHasNoPoints == ~is_drawing => (start_pos = None /\ last_pos = None)

\* a shape gesture that drew on the canvas has just ended
ShapeGestureEnded ==
    /\ ~is_drawing
    /\ ev.op = "sample"
    /\ ev.commits = 1
    /\ current_tool \in ShapeTools
    /\ canvas # << >>
    /\ start_pos = None
    /\ last_pos = None

\* C12: with a shape tool selected, a pressed sample (pointer-down or
\* pointer-move) leaves the canvas, the history and the cursor unchanged; of
\* the surfaces it writes the preview only.
ShapeGestureLeavesCanvas ==
    [][ (ev'.op = "sample" /\ ev'.pressed /\ current_tool \in ShapeTools) =>
            UNCHANGED <<canvas, history, history_index>>
      ]_vars

\* a shape gesture is active, its preview holds a shape and the canvas and
\* the history are still as constructed
ShapePreviewOnly ==
    /\ is_drawing
    /\ ev.op = "sample"
    /\ ev.pressed
    /\ current_tool \in ShapeTools
    /\ preview_surface # << >>
    /\ canvas = << >>
    /\ history = << << >> >>

\* C13: whenever no gesture is active, and so right after every commit that
\* ends a gesture, the preview surface is in its cleared state.
IdlePreviewCleared == ~is_drawing => preview_surface = << >>

\* the commit ending a gesture has just wiped a preview that held a shape
PreviewWipedByCommit ==
    /\ ~is_drawing
    /\ ev.op = "sample"
    /\ ev.commits = 1
    /\ ev.cleared
    /\ preview_surface = << >>

\* C14: right after clear the canvas is all background, one commit was made
\* and the snapshot at the cursor, the last one, is all background; after
\* clear, clear the last two snapshots and the canvas are identical.
ClearCommitsBlank ==
    ev.op = "clear" =>
        /\ canvas = << >>
        /\ ev.commits = 1
        /\ history_index = Len(history) - 1
        /\ history[Len(history)] = << >>
        /\ ev.again =>
              /\ Len(history) >= 2
              /\ history[Len(history) - 1] = history[Len(history)]
              /\ history[Len(history)] = canvas

\* clear ran twice in a row on a canvas that had been drawn on
ClearedTwice ==
    /\ ev.op = "clear"
    /\ ev.again
    /\ Len(history) = 3
    /\ history[1] # << >>
    /\ history[2] = << >>
    /\ history[3] = << >>

\* the circles' centres of a stroke, in drawing order
Centres(stroke) == [k \in 1..Len(stroke) |-> stroke[k][3]]
\* squared distance between two canvas points
Dist2(a, b) == (b[1] - a[1]) * (b[1] - a[1]) + (b[2] - a[2]) * (b[2] - a[2])
\* a sample inside the canvas arriving during a gesture with the given tools
GestureSample(tools) ==
    /\ ev'.op = "sample"
    /\ InsideCanvas(ev'.pos)
    /\ is_drawing
    /\ start_pos # None
    /\ current_tool \in tools

\* C15 as stated: a circle of radius <= 0 and a star or heart whose radius,
\* half the horizontal displacement between start and end, is <= 0 draw
\* nothing: a pointer-move leaves no shape on the preview and the pointer-up
\* leaves the canvas as it was.
DegenerateDrawsNothing ==
    [][ LET end_pos == CanvasCoord(ev'.pos)
            degenerate ==
                \/ current_tool = "circle" /\ Dist2(start_pos, end_pos) = 0
                \/ current_tool \in {"star", "heart"}
                      /\ Abs(end_pos[1] - start_pos[1]) \div 2 <= 0
        IN  (GestureSample({"circle", "star", "heart"}) /\ degenerate) =>
                IF ev'.pressed
                THEN preview_surface' = << >>
                ELSE canvas' = canvas
      ]_vars

\* C16: for every width the slider can select (all within 1..100) a pressed
\* sample with a freehand tool draws with the effective width max(1, w div 2)
\* for the pen, floor(1.5 w) for the marker and w for the brush and eraser:
\* that width is >= 1, and the dab of a pointer-down and every circle of a
\* pointer-move segment have radius (effective width) div 2.
EffectiveWidths ==
    [][ (/\ ev'.op = "sample"
         /\ ev'.pressed
         /\ InsideCanvas(ev'.pos)
         /\ current_tool \in FreehandTools) =>
            LET w == brush_size
                effective ==
                    IF current_tool = "pen" THEN Max(1, w \div 2)
                    ELSE IF current_tool = "marker"
                    THEN CHOOSE m \in 0..200 : 2 * m <= 3 * w /\ 3 * w < 2 * (m + 1)
                    ELSE w
                stroke == canvas'[Len(canvas')]
            IN  /\ w \in 1..100
                /\ effective >= 1
                /\ DabSize(current_tool, w) = effective
                /\ EffectiveSize(current_tool, w) = effective
                /\ Len(canvas') = Len(canvas) + 1
                /\ \A k \in 1..Len(stroke) : stroke[k][4] = effective \div 2
      ]_vars

\* the marker at the largest width the slider sets, 99, has drawn a dab and a
\* segment, both with circles of radius 74 (effective width 148)
MarkerDabAndSegment ==
    /\ current_tool = "marker"
    /\ brush_size = 99
    /\ Len(canvas) = 2
    /\ Len(canvas[1]) = 1
    /\ canvas[1][1][4] = 74
    /\ Len(canvas[2]) > 1
    /\ canvas[2][1][4] = 74

\* a pointer-move inside the canvas during a freehand gesture
FreehandMove ==
    /\ GestureSample(FreehandTools)
    /\ ev'.pressed
    /\ last_pos # None

\* C17 as stated: a freehand segment between two different samples is drawn
\* in round(distance) steps, the distance rounded to the nearest integer,
\* that is with round(distance) + 1 circles; between coinciding samples
\* exactly one circle is drawn.
StepsRounded ==
    [][ FreehandMove =>
            LET end_pos == CanvasCoord(ev'.pos)
                stroke == canvas'[Len(canvas')]
            IN  /\ Len(canvas') = Len(canvas) + 1
                /\ Len(stroke) = IF last_pos = end_pos THEN 1
                                 ELSE ISqrtNearest(Dist2(last_pos, end_pos)) + 1
      ]_vars

\* C17 as amended: the number of steps is the distance with its fraction
\* dropped, the largest n with n * n <= dx * dx + dy * dy, and n + 1 circles
\* are drawn; between coinciding samples exactly one circle is drawn.
StepsTruncated ==
    [][ FreehandMove =>
            LET end_pos == CanvasCoord(ev'.pos)
                d2 == Dist2(last_pos, end_pos)
                stroke == canvas'[Len(canvas')]
            IN  /\ Len(canvas') = Len(canvas) + 1
                /\ \E n \in 0..d2 :
                      /\ n * n <= d2
                      /\ d2 < (n + 1) * (n + 1)
                      /\ Len(stroke) = n + 1
                /\ last_pos = end_pos => Len(stroke) = 1
      ]_vars

\* a segment from canvas (0,0) to (2,2), distance 2.83, has been drawn with
\* three circles, and a move to the same point has drawn one circle
TruncatedSegmentDrawn ==
    /\ is_drawing
    /\ start_pos = <<0, 0>>
    /\ last_pos = <<2, 2>>
    /\ Len(canvas) = 3
    /\ Centres(canvas[2]) = << <<0, 0>>, <<1, 1>>, <<2, 2>> >>
    /\ Centres(canvas[3]) = << <<2, 2>> >>

\* C18 as stated: the circles of a freehand segment start at the previous
\* sample, end at the current sample, and each next centre differs from the
\* one before by at most 1 in x and at most 1 in y.
CentresContiguous ==
    [][ FreehandMove =>
            LET end_pos == CanvasCoord(ev'.pos)
                c == Centres(canvas'[Len(canvas')])
            IN  /\ c[1] = last_pos
                /\ c[Len(c)] = end_pos
                /\ \A k \in 1..(Len(c) - 1) :
                      /\ Abs(c[k + 1][1] - c[k][1]) <= 1
                      /\ Abs(c[k + 1][2] - c[k][2]) <= 1
      ]_vars

\* C19 as stated: a sample of a circle gesture draws, on the preview for a
\* pointer-move and on the canvas for the pointer-up, the circle centred at
\* the start point whose radius is the distance from start to end rounded
\* to the nearest integer (nothing for radius 0).
CircleRadiusRounded ==
    [][ GestureSample({"circle"}) =>
            LET end_pos == CanvasCoord(ev'.pos)
                radius == ISqrtNearest(Dist2(start_pos, end_pos))
                shape == << DrawCircle(current_color, start_pos, radius, brush_size) >>
            IN  IF ev'.pressed
                THEN preview_surface' = IF radius > 0 THEN << shape >> ELSE << >>
                ELSE canvas' = IF radius > 0 THEN Append(canvas, shape) ELSE canvas
      ]_vars

\* C19 as amended: the radius is the distance from start to end with its
\* fraction dropped, the largest r with r * r <= dx * dx + dy * dy, in the
\* preview and in the committed shape alike (nothing for radius 0).
CircleRadiusTruncated ==
    [][ GestureSample({"circle"}) =>
            LET end_pos == CanvasCoord(ev'.pos)
                d2 == Dist2(start_pos, end_pos)
                radius == CHOOSE r \in 0..d2 : r * r <= d2 /\ d2 < (r + 1) * (r + 1)
                shape == << DrawCircle(current_color, start_pos, radius, brush_size) >>
            IN  IF ev'.pressed
                THEN preview_surface' = IF radius > 0 THEN << shape >> ELSE << >>
                ELSE canvas' = IF radius > 0 THEN Append(canvas, shape) ELSE canvas
      ]_vars

\* a circle from canvas (10,10) to (12,12), distance 2.83, was previewed and
\* then committed with radius 2
CircleOfRadiusTwoCommitted ==
    /\ current_tool = "circle"
    /\ ev.op = "sample"
    /\ ev.pos = <<382, 112>>
    /\ ev.cleared
    /\ ev.commits = 1
    /\ canvas = << << DrawCircle(BLUE, <<10, 10>>, 2, brush_size) >> >>

\* C20 as stated: a sample of a triangle gesture with start s and
\* displacement (w, h) draws the polygon (s.x + w/2, s.y), (s.x, s.y + h),
\* (s.x + w, s.y + h), w/2 cut toward zero, for every w, negative and odd
\* included, on the preview for a pointer-move and on the canvas for the
\* pointer-up.
TriangleHalfTowardZero ==
    [][ GestureSample({"triangle"}) =>
            LET end_pos == CanvasCoord(ev'.pos)
                w == end_pos[1] - start_pos[1]
                h == end_pos[2] - start_pos[2]
                half == IF w >= 0 THEN w \div 2 ELSE -((-w) \div 2)
                shape == << DrawPolygon(current_color,
                                        << <<start_pos[1] + half, start_pos[2]>>,
                                           <<start_pos[1], start_pos[2] + h>>,
                                           <<start_pos[1] + w, start_pos[2] + h>> >>,
                                        brush_size) >>
            IN  IF ev'.pressed
                THEN preview_surface' = << shape >>
                ELSE canvas' = Append(canvas, shape)
      ]_vars

\* C20 as amended: the same vertices with w/2 rounded down, the largest
\* integer half with 2 * half <= w, so that a negative odd w gives
\* (w - 1) / 2.
TriangleHalfRoundedDown ==
    [][ GestureSample({"triangle"}) =>
            LET end_pos == CanvasCoord(ev'.pos)
                w == end_pos[1] - start_pos[1]
                h == end_pos[2] - start_pos[2]
                half == CHOOSE m \in -Abs(w)..Abs(w) : 2 * m <= w /\ w < 2 * (m + 1)
                shape == << DrawPolygon(current_color,
                                        << <<start_pos[1] + half, start_pos[2]>>,
                                           <<start_pos[1], start_pos[2] + h>>,
                                           <<start_pos[1] + w, start_pos[2] + h>> >>,
                                        brush_size) >>
            IN  IF ev'.pressed
                THEN preview_surface' = << shape >>
                ELSE canvas' = Append(canvas, shape)
      ]_vars

\* a triangle from canvas (11,10) to (10,12), w = -1, was previewed and then
\* committed with its apex at x = 10
LeftwardTriangleCommitted ==
    /\ current_tool = "triangle"
    /\ ev.op = "sample"
    /\ ev.pos = <<380, 112>>
    /\ ev.cleared
    /\ ev.commits = 1
    /\ canvas = << << DrawPolygon(BLUE, << <<10, 10>>, <<11, 12>>, <<10, 12>> >>,
                                  brush_size) >> >>

\* C21: whenever no gesture is active the cursor is an index of the history
\* and the canvas is the snapshot there, whatever gestures, clears, undos and
\* redos came before; a gesture during which an undo or a redo was issued
\* has, once completed, committed the canvas it left as the last snapshot.
IdleCanvasIsSnapshot ==
    /\ ~is_drawing =>
          /\ history_index \in 0..(Len(history) - 1)
          /\ canvas = history[history_index + 1]
    /\ (~is_drawing /\ ev.mid) =>
          /\ ev.commits = 1
          /\ history_index = Len(history) - 1
          /\ canvas = history[Len(history)]

\* a freehand gesture was completed after an undo, issued in the middle of
\* it, had replaced the canvas; what was drawn after the undo is committed
GestureCompletedAfterUndo ==
    /\ ~is_drawing
    /\ ev.mid
    /\ ev.op = "sample"
    /\ ev.branched
    /\ current_tool \in FreehandTools
    /\ canvas # << >>
    /\ Len(history) = 2

\* the objects a history holds
Stored(o) == {o.history[k] : k \in 1..Len(o.history)}

\* C22: a snapshot object holds the same content for as long as the history
\* holds it, whatever the step (drawing, clear, undo, redo, commit); the
\* canvas is never one of the objects the history holds, no object is in
\* the history twice, and the canvas and the snapshots the program reads are
\* what those objects hold.
SnapshotsIsolated ==
    [][ objs.on =>
          /\ \A id \in Stored(objs) \cap Stored(objs') : objs'.heap[id] = objs.heap[id]
          /\ objs'.canvas \notin Stored(objs')
          /\ Cardinality(Stored(objs')) = Len(objs'.history)
          /\ canvas' = objs'.heap[objs'.canvas]
          /\ history' = [k \in 1..Len(objs'.history) |-> objs'.heap[objs'.history[k]]]
      ]_vars

\* after an undo the brush is drawing on the canvas, a copy of the snapshot
\* at the cursor, and the snapshot still holds what was committed
DrawingOverUndoneSnapshot ==
    /\ objs.on
    /\ is_drawing
    /\ ev.op = "sample"
    /\ Len(objs.history) >= 2
    /\ history_index < Len(objs.history) - 1
    /\ objs.heap[objs.canvas] # objs.heap[objs.history[history_index + 1]]
    /\ objs.heap[objs.history[Len(objs.history)]] # << >>

\* C23: for every shape tool, start point and end point P, the draw calls a
\* pointer-move to P leaves on the preview are the draw calls a pointer-up at
\* P adds to the canvas, none for a degenerate shape in both: each branch
\* draws what the other branch's computation gives, and in every state of a
\* shape gesture the two computations agree for every P of the grid.
PreviewAgreesWithCommit ==
    [][ GestureSample(ShapeTools) =>
            LET P == CanvasCoord(ev'.pos)
            IN  /\ IF ev'.pressed
                   THEN preview_surface' =
                            Drawn(<< >>, CommitShape(current_tool, start_pos, P,
                                                     current_color, brush_size))
                   ELSE canvas' =
                            Drawn(canvas, PreviewShape(current_tool, start_pos, P,
                                                       current_color, brush_size))
                /\ \A pos \in ShapePositions :
                      PreviewShape(current_tool, start_pos, CanvasCoord(pos),
                                   current_color, brush_size)
                      = CommitShape(current_tool, start_pos, CanvasCoord(pos),
                                    current_color, brush_size)
      ]_vars

\* a heart from canvas (10,10) to (12,12) with width 5 is on the preview,
\* with the size, centre and outline width the pointer-up would commit
HeartPreviewed ==
    /\ is_drawing
    /\ current_tool = "heart"
    /\ brush_size = 5
    /\ start_pos = <<10, 10>>
    /\ ev.op = "sample"
    /\ ev.pressed
    /\ ev.pos = <<382, 112>>
    /\ preview_surface = << draw_heart(<<10, 10>>, 2, BLUE, 5) >>
    /\ canvas = << >>

====
